---------------------------- MODULE Spec2Model ----------------------------
(***************************************************************************)
(* The centred interval tree of src/IntervalTree.hpp: construction, copy,  *)
(* assignment, destruction and the four inspectors, over an explicit heap  *)
(* of IntervalTree and IntervalTreeNode objects.                           *)
(*                                                                         *)
(* R is instantiated as in src/test/testIntervalTree.cpp (size_t), T as a  *)
(* pair <<start, end>> with start <= end.  std::sort leaves the order of   *)
(* elements with equal keys unspecified, so every sort is the set of its   *)
(* possible outcomes and the constructor is a set of possible trees.       *)
(***************************************************************************)
EXTENDS Integers, Sequences, FiniteSets

(* ------------------------------ bounds -------------------------------- *)
MaxCoord == 2
MaxLen == 3

Coord == 0..MaxCoord
NULL == 0

\* The caller's tree variables.  A variable, and the temporary of operator=,
\* is an object with automatic storage: it has an address of its own, below
\* the addresses operator new hands out.
TreeVars == <<"t1", "t2">>
Trees == {TreeVars[k] : k \in 1..Len(TreeVars)}
Where(t) == CHOOSE k \in 1..Len(TreeVars) : TreeVars[k] = t
Tmp == Len(TreeVars) + 1
Automatic == 1..Tmp

\* The free store is laid out in regions, one for the contents of every tree
\* variable and one for those of the temporary; a region holds the subtrees
\* and nodes of a tree of MaxLen intervals.
RegionSize == 2 * MaxLen
NumRegions == Tmp
MaxAddr == Tmp + RegionSize * NumRegions
Store == (Tmp + 1)..MaxAddr
Addr == 1..MaxAddr

(* ------------------------------ intervals ----------------------------- *)
Interval == {i \in Coord \X Coord : i[1] <= i[2]}
\* the two accessors the caller hands to the constructor
getStart == [i \in Interval |-> i[1]]
getEnd == [i \in Interval |-> i[2]]

\* The vectors a tree is constructed from.  The constructor reads its vector
\* only through std::sort, whose possible outcomes do not depend on the order
\* the vector came in, so each collection of intervals is listed once, in
\* the order of TestInterval::compare.
compare(i1, i2) == IF i1[1] = i2[1] THEN i1[2] < i2[2] ELSE i1[1] < i2[1]
Vectors ==
  UNION {{v \in [1..n -> Interval] : \A k \in 1..(n - 1) : ~compare(v[k + 1], v[k])}
         : n \in 0..MaxLen}

Range(s) == {s[k] : k \in 1..Len(s)}
Count(s, x) == Cardinality({k \in 1..Len(s) : s[k] = x})
\* the multiset of a vector's elements
BagOf(s) == [x \in Range(s) |-> Count(s, x)]

(* ------------------------------ sorting ------------------------------- *)
Arrangements(n) == {f \in [1..n -> 1..n] : \A i, j \in 1..n : f[i] = f[j] => i = j}

\* std::sort(v.begin(), v.end(), IntervalComparator(compFunc)): every
\* arrangement of v in which no element compares less than its predecessor
sort(v, compFunc) ==
  {w \in {[k \in 1..Len(v) |-> v[f[k]]] : f \in Arrangements(Len(v))} :
     \A k \in 1..(Len(v) - 1) : ~(compFunc[w[k + 1]] < compFunc[w[k]])}

(* ------------------------------ the heap ------------------------------ *)
FreeCell == [kind |-> "free", data |-> NULL, left |-> NULL, right |-> NULL,
             mid |-> 0, starts |-> <<>>, ends |-> <<>>]
\* an IntervalTree object whose constructor has run lines 244-245
TreeCell == [kind |-> "tree", data |-> NULL, left |-> NULL, right |-> NULL,
             mid |-> 0, starts |-> <<>>, ends |-> <<>>]
\* a node that keeps its intervals in start order in both vectors
IntervalTreeNode_StartOrderOnly(s, e, mid) ==
  [kind |-> "node", data |-> NULL, left |-> NULL, right |-> NULL,
   mid |-> mid, starts |-> s, ends |-> s]
IntervalTreeNode(s, e, mid) ==
  [kind |-> "node", data |-> NULL, left |-> NULL, right |-> NULL,
   mid |-> mid, starts |-> s, ends |-> e]

\* operator new.  The address is the allocator's choice and is never
\* observed; this allocator keeps the objects of one tree together: an object
\* goes to the lowest free address of the region its owner's other objects
\* are in, and the first object of a tree to the lowest empty region.
Region(a) == (a - Tmp - 1) \div RegionSize
Lowest(as) == CHOOSE a \in as : \A b \in as : a <= b
FreeIn(h, as) == {a \in as : h[a].kind = "free"}
Alloc(h, this) ==
  LET kin == ({this, h[this].data, h[this].left, h[this].right} \cap Store)
      near == IF kin = {} THEN {}
              ELSE FreeIn(h, {a \in Store : Region(a) = Region(Lowest(kin))})
      empty == {a \in Store : \A b \in Store : Region(b) = Region(a) => h[b].kind = "free"}
  IN IF near # {} THEN Lowest(near)
     ELSE IF empty # {} THEN Lowest(empty)
     ELSE Lowest(FreeIn(h, Store))

(* --------------------------- construction ----------------------------- *)
EmptyMsg == "Interval tree constructor got empty set of intervals"
MidMsg == "fatal error: picked mid point but this failed to intersect anything!"

\* a centre that leaves out the offset of the element's start
Centre_NoOffset(midInt) == (getEnd[midInt] - getStart[midInt]) \div 2
\* R mid = ((getEnd(midInt) - getStart(midInt)) / 2) + getStart(midInt)
Centre(midInt) == ((getEnd[midInt] - getStart[midInt]) \div 2) + getStart[midInt]
\* the element the centre is taken from
Pivot(c) == c[(Len(c) \div 2) + 1]

\* a left partition that also takes the intervals ending at mid
GoesLeft_Inclusive(i, mid) == getEnd[i] <= mid
GoesLeft(i, mid) == getEnd[i] < mid
\* a right partition that also takes the intervals starting at mid, which
\* stay in the node as well
GoesRight_Inclusive(i, mid) == ~GoesLeft(i, mid) /\ getStart[i] >= mid
GoesRight(i, mid) == ~GoesLeft(i, mid) /\ getStart[i] > mid
StaysHere(i, mid) == ~GoesLeft(i, mid) /\ ~(getStart[i] > mid)

Threw(h, msg) == [h |-> h, ok |-> FALSE, what |-> msg]
Built(h) == [h |-> h, ok |-> TRUE, what |-> ""]

\* The constructor run on the object at address this (already allocated):
\* the set of its possible outcomes, each the heap it leaves and whether it
\* returned or threw.  A subtree whose constructor throws has its storage
\* released by the new-expression; what the parent built before is leaked.
RECURSIVE TreeCtor(_, _, _)
TreeCtor(h, this, intervals) ==
  IF Len(intervals) <= 0 THEN {Threw(h, EmptyMsg)}
  ELSE UNION {
    LET mid == Centre(Pivot(cIntervals))
        lt == SelectSeq(cIntervals, LAMBDA i : GoesLeft(i, mid))
        rt == SelectSeq(cIntervals, LAMBDA i : GoesRight(i, mid))
        here == SelectSeq(cIntervals, LAMBDA i : StaysHere(i, mid))
        Sub(g, part, side) ==
          IF Len(part) > 0
          THEN LET a == Alloc(g, this)
               IN {IF o.ok
                   THEN Built(IF side = "left" THEN [o.h EXCEPT ![this].left = a]
                                               ELSE [o.h EXCEPT ![this].right = a])
                   ELSE Threw([o.h EXCEPT ![a] = FreeCell], o.what)
                   : o \in TreeCtor([g EXCEPT ![a] = TreeCell], a, part)}
          ELSE {Built(g)}
        Data(g) ==
          LET a == Alloc(g, this)
          IN {Built([g EXCEPT ![a] = IntervalTreeNode(s, e, mid), ![this].data = a])
              : s \in sort(here, getStart), e \in sort(here, getEnd)}
    IN IF Len(here) <= 0 THEN {Threw(h, MidMsg)}
       ELSE UNION {IF ~l.ok THEN {l}
                   ELSE UNION {IF ~r.ok THEN {r} ELSE Data(r.h)
                               : r \in Sub(l.h, rt, "right")}
                   : l \in Sub(h, lt, "left")}
    : cIntervals \in sort(intervals, getStart)}

(* ----------------------------- inspectors ----------------------------- *)
\* what a loop over s collects that pushes the elements passing its test and
\* breaks at the first one that does not
ScanUntilBreak(s, passing) ==
  LET stop == {k \in 1..Len(s) : s[k] \notin passing}
  IN IF stop = {} THEN s
     ELSE SubSeq(s, 1, (CHOOSE k \in stop : \A j \in stop : k <= j) - 1)

EndsAfter(i, point) == getEnd[i] >= point
\* a test that leaves out the intervals starting at the point
StartsBefore_Strict(i, point) == getStart[i] < point
StartsBefore(i, point) == getStart[i] <= point

\* what the node data gives to a query above its mid, and below it
endAfterP(data, point) ==
  ScanUntilBreak(data.ends, {i \in Range(data.ends) : EndsAfter(i, point)})
startBeforeP(data, point) ==
  ScanUntilBreak(data.starts, {i \in Range(data.starts) : StartsBefore(i, point)})

\* a perfect match that leaves out the intervals ending at mid
perfectMatch_EndsAfterMid(data) == SelectSeq(data.ends, LAMBDA i : getEnd[i] > data.mid)
\* what the node data gives to a query at its mid
perfectMatch(data) == data.ends

RECURSIVE intersectingPoint(_, _, _)
intersectingPoint(h, this, point) ==
  LET data == h[h[this].data]
  IN IF point > data.mid
     THEN endAfterP(data, point) \o
          (IF h[this].right # NULL
           THEN intersectingPoint(h, h[this].right, point) ELSE <<>>)
     ELSE IF point < data.mid
     THEN startBeforeP(data, point) \o
          (IF h[this].left # NULL
           THEN intersectingPoint(h, h[this].left, point) ELSE <<>>)
     ELSE perfectMatch(data)

\* the four-way test of lines 419-422
Overlaps(i, start, end) ==
  \/ getStart[i] >= start /\ getStart[i] < end
  \/ getEnd[i] > start /\ getEnd[i] <= end
  \/ start >= getStart[i] /\ start < getEnd[i]
  \/ end > getStart[i] /\ end <= getEnd[i]

\* a left descent decided by the comparison turned round
DescendLeft_WrongWay(start, mid) == start >= mid
DescendLeft(start, mid) == start <= mid
DescendRight(end, mid) == end >= mid

RECURSIVE intersectingInterval(_, _, _, _)
intersectingInterval(h, this, start, end) ==
  LET data == h[h[this].data]
  IN SelectSeq(data.starts, LAMBDA i : Overlaps(i, start, end)) \o
     (IF h[this].left # NULL /\ DescendLeft(start, data.mid)
      THEN intersectingInterval(h, h[this].left, start, end) ELSE <<>>) \o
     (IF h[this].right # NULL /\ DescendRight(end, data.mid)
      THEN intersectingInterval(h, h[this].right, start, end) ELSE <<>>)

\* a flattening in in-order: left subtree, node, right subtree
RECURSIVE squash_InOrder(_, _)
squash_InOrder(h, this) ==
  (IF h[this].left # NULL THEN squash_InOrder(h, h[this].left) ELSE <<>>) \o
  h[h[this].data].starts \o
  (IF h[this].right # NULL THEN squash_InOrder(h, h[this].right) ELSE <<>>)

RECURSIVE squash(_, _)
squash(h, this) ==
  h[h[this].data].starts \o
  (IF h[this].left # NULL THEN squash(h, h[this].left) ELSE <<>>) \o
  (IF h[this].right # NULL THEN squash(h, h[this].right) ELSE <<>>)

\* a count that leaves out the right subtree
RECURSIVE size_SkipsRight(_, _)
size_SkipsRight(h, this) ==
  Len(h[h[this].data].starts) +
  (IF h[this].left # NULL THEN size_SkipsRight(h, h[this].left) ELSE 0)

RECURSIVE size(_, _)
size(h, this) ==
  Len(h[h[this].data].starts) +
  (IF h[this].left # NULL THEN size(h, h[this].left) ELSE 0) +
  (IF h[this].right # NULL THEN size(h, h[this].right) ELSE 0)

(* ------------------------ copy and destruction ------------------------ *)
\* IntervalTreeNode(const IntervalTreeNode&): both vectors and mid are copied
NodeCopy(n) == IntervalTreeNode(n.starts, n.ends, n.mid)

\* a copy constructor that copies the three pointers
CopyCtor_Shallow(h, this, t) ==
  [h EXCEPT ![this].data = h[t].data,
            ![this].left = h[t].left,
            ![this].right = h[t].right]

\* The copy constructor run on the object at address this, copying the tree
\* at address t: the heap it leaves.
RECURSIVE CopyCtor(_, _, _)
CopyCtor(h, this, t) ==
  LET h1 == IF h[t].data = NULL THEN [h EXCEPT ![this].data = NULL]
            ELSE LET a == Alloc(h, this)
                 IN [h EXCEPT ![a] = NodeCopy(h[h[t].data]), ![this].data = a]
      h2 == IF h[t].left = NULL THEN [h1 EXCEPT ![this].left = NULL]
            ELSE LET a == Alloc(h1, this)
                 IN [CopyCtor([h1 EXCEPT ![a] = TreeCell], a, h[t].left)
                       EXCEPT ![this].left = a]
      h3 == IF h[t].right = NULL THEN [h2 EXCEPT ![this].right = NULL]
            ELSE LET a == Alloc(h2, this)
                 IN [CopyCtor([h2 EXCEPT ![a] = TreeCell], a, h[t].right)
                       EXCEPT ![this].right = a]
  IN h3

\* The destructor run on the object at address this: the addresses it passes
\* to delete, in order (a subtree's own deletes precede its storage).
RECURSIVE Deletes(_, _)
Deletes(h, this) ==
  (IF h[this].data # NULL THEN <<h[this].data>> ELSE <<>>) \o
  (IF h[this].left # NULL
   THEN Deletes(h, h[this].left) \o <<h[this].left>> ELSE <<>>) \o
  (IF h[this].right # NULL
   THEN Deletes(h, h[this].right) \o <<h[this].right>> ELSE <<>>)

\* the heap once the addresses in as are released
Release(h, as) == [a \in Addr |-> IF a \in as THEN FreeCell ELSE h[a]]

\* a swap that leaves other with the contents it had
swap_OneWay(h, this, other) ==
  [h EXCEPT ![this] = [h[this] EXCEPT !.data = h[other].data,
                                      !.left = h[other].left,
                                      !.right = h[other].right]]

\* IntervalTree::swap
swap(h, this, other) ==
  [h EXCEPT ![this] = [h[this] EXCEPT !.data = h[other].data,
                                      !.left = h[other].left,
                                      !.right = h[other].right],
            ![other] = [h[other] EXCEPT !.data = h[this].data,
                                        !.left = h[this].left,
                                        !.right = h[this].right]]

(* ------------------------------- state -------------------------------- *)
VARIABLES heap,       \* address -> object
          tree,       \* the caller's tree variables: address of the object, or NULL
          intervals,  \* the vector each live tree's contents were constructed from
          made,       \* how each live tree came by its contents
          freed,      \* the addresses the last call passed to delete, in order
          last,       \* the last call and what it returned
          calls       \* the constructor calls in progress, the outermost first

vars == <<heap, tree, intervals, made, freed, last, calls>>

Call(op, t, args, out, n, what) ==
  [op |-> op, t |-> t, args |-> args, out |-> out, n |-> n, what |-> what]

Init ==
  /\ heap = [a \in Addr |-> FreeCell]
  /\ tree = [t \in Trees |-> NULL]
  /\ intervals = [t \in Trees |-> <<>>]
  /\ made = [t \in Trees |-> "none"]
  /\ freed = <<>>
  /\ last = Call("none", "", <<>>, <<>>, 0, "")
  /\ calls = <<>>

\* a constructor that allocates its node before it looks at the vector, and
\* leaks it when it throws
Construct_AllocatesFirst(t, v) ==
  /\ tree[t] = NULL
  /\ LET a == Where(t)
     IN \E o \in TreeCtor([heap EXCEPT ![a] = TreeCell], a, v) :
          IF o.ok
          THEN /\ heap' = o.h
               /\ tree' = [tree EXCEPT ![t] = a]
               /\ intervals' = [intervals EXCEPT ![t] = v]
               /\ made' = [made EXCEPT ![t] = "constructed"]
               /\ last' = Call("construct", t, <<v>>, <<>>, 0, "")
          ELSE /\ heap' = [o.h EXCEPT ![a] = FreeCell,
                                      ![Alloc(o.h, a)] = IntervalTreeNode(<<>>, <<>>, 0)]
               /\ UNCHANGED <<tree, intervals, made>>
               /\ last' = Call("construct", t, <<v>>, <<>>, 0, o.what)
  /\ freed' = <<>>
  /\ UNCHANGED calls

\* IntervalTree<T,R> t(v, &getStart, &getEnd)
Construct(t, v) ==
  /\ tree[t] = NULL
  /\ LET a == Where(t)
     IN \E o \in TreeCtor([heap EXCEPT ![a] = TreeCell], a, v) :
          IF o.ok
          THEN /\ heap' = o.h
               /\ tree' = [tree EXCEPT ![t] = a]
               /\ intervals' = [intervals EXCEPT ![t] = v]
               /\ made' = [made EXCEPT ![t] = "constructed"]
               /\ last' = Call("construct", t, <<v>>, <<>>, 0, "")
          ELSE /\ heap' = [o.h EXCEPT ![a] = FreeCell]
               /\ UNCHANGED <<tree, intervals, made>>
               /\ last' = Call("construct", t, <<v>>, <<>>, 0, o.what)
  /\ freed' = <<>>
  /\ UNCHANGED calls

\* IntervalTree<T,R> t(u)
CopyConstruct(t, u) ==
  /\ tree[t] = NULL
  /\ tree[u] # NULL
  /\ LET a == Where(t)
     IN /\ heap' = CopyCtor([heap EXCEPT ![a] = TreeCell], a, tree[u])
        /\ tree' = [tree EXCEPT ![t] = a]
  /\ intervals' = [intervals EXCEPT ![t] = intervals[u]]
  /\ made' = [made EXCEPT ![t] = "copied"]
  /\ freed' = <<>>
  /\ last' = Call("copy", t, <<u>>, <<>>, 0, "")
  /\ UNCHANGED calls

\* t = u: a temporary copy of u, swapped with t, then destroyed
Assign(t, u) ==
  /\ tree[t] # NULL
  /\ tree[u] # NULL
  /\ LET tmp == Tmp
         h1 == CopyCtor([heap EXCEPT ![tmp] = TreeCell], tmp, tree[u])
         h2 == swap(h1, tree[t], tmp)
         ds == Deletes(h2, tmp)
     IN /\ heap' = Release(h2, Range(ds) \cup {tmp})
        /\ freed' = ds
  /\ intervals' = [intervals EXCEPT ![t] = intervals[u]]
  /\ made' = [made EXCEPT ![t] = "assigned"]
  /\ last' = Call("assign", t, <<u>>, <<>>, 0, "")
  /\ UNCHANGED tree
  /\ UNCHANGED calls

\* the tree variable t reaches the end of its lifetime
Destroy(t) ==
  /\ tree[t] # NULL
  /\ LET ds == Deletes(heap, tree[t])
     IN /\ heap' = Release(heap, Range(ds) \cup {tree[t]})
        /\ freed' = ds
  /\ tree' = [tree EXCEPT ![t] = NULL]
  /\ intervals' = [intervals EXCEPT ![t] = <<>>]
  /\ made' = [made EXCEPT ![t] = "none"]
  /\ last' = Call("destroy", t, <<>>, <<>>, 0, "")
  /\ UNCHANGED calls

QueryPoint(t, point) ==
  /\ tree[t] # NULL
  /\ last' = Call("intersectingPoint", t, <<point>>,
                  intersectingPoint(heap, tree[t], point), 0, "")
  /\ freed' = <<>>
  /\ UNCHANGED <<heap, tree, intervals, made>>
  /\ UNCHANGED calls

QueryInterval(t, start, end) ==
  /\ tree[t] # NULL
  /\ start <= end
  /\ last' = Call("intersectingInterval", t, <<start, end>>,
                  intersectingInterval(heap, tree[t], start, end), 0, "")
  /\ freed' = <<>>
  /\ UNCHANGED <<heap, tree, intervals, made>>
  /\ UNCHANGED calls

Squash(t) ==
  /\ tree[t] # NULL
  /\ last' = Call("squash", t, <<>>, squash(heap, tree[t]), 0, "")
  /\ freed' = <<>>
  /\ UNCHANGED <<heap, tree, intervals, made>>
  /\ UNCHANGED calls

Size(t) ==
  /\ tree[t] # NULL
  /\ last' = Call("size", t, <<>>, <<>>, size(heap, tree[t]), "")
  /\ freed' = <<>>
  /\ UNCHANGED <<heap, tree, intervals, made>>
  /\ UNCHANGED calls

(* --------------------------- specifications --------------------------- *)
\* one tree, built from any vector and queried
Next ==
  \/ \E v \in Vectors : Construct("t1", v)
  \/ \E point \in Coord : QueryPoint("t1", point)
  \/ \E start, end \in Coord : QueryInterval("t1", start, end)
  \/ Squash("t1")
  \/ Size("t1")

Spec == Init /\ [][Next]_vars

\* the vectors the trees of LifeSpec are built from: the empty one, and one
\* for each shape of tree (a node alone, a node holding several intervals,
\* with a left subtree, with a right subtree, with both)
LifeVectors ==
  {<<>>,
   <<<<0, 1>>>>,
   <<<<0, 1>>, <<0, 2>>>>,
   <<<<0, 0>>, <<1, 2>>>>,
   <<<<0, 0>>, <<0, 0>>, <<2, 2>>>>,
   <<<<0, 0>>, <<1, 1>>, <<2, 2>>>>}

\* several trees, built, copied, assigned and destroyed
LifeNext ==
  \/ \E t \in Trees, v \in LifeVectors : Construct(t, v)
  \/ \E t, u \in Trees : CopyConstruct(t, u)
  \/ \E t, u \in Trees : Assign(t, u)
  \/ \E t \in Trees : Destroy(t)

LifeSpec == Init /\ [][LifeNext]_vars

(* ---------------------- the constructor, call by call ----------------- *)
\* The constructor of lines 241-293 as the calls it makes: a call partitions
\* its vector, constructs the left subtree, then the right one, then its
\* node, and returns.  Only the control of the recursion is followed here;
\* the objects are those of TreeCtor.
MaxDepth == MaxLen + 1

\* a call that has received its vector and not yet looked at it
Frame(v) == [intervals |-> v, lt |-> <<>>, rt |-> <<>>, here |-> <<>>, pc |-> "enter"]
Top == calls[Len(calls)]
SetTop(f) == [calls EXCEPT ![Len(calls)] = f]
Deepest(n) == IF n > last.n THEN n ELSE last.n

\* IntervalTree<T,R> t(v, &getStart, &getEnd) is entered
CallCtor(v) ==
  /\ calls = <<>>
  /\ calls' = <<Frame(v)>>
  /\ last' = Call("constructing", "t1", <<v>>, <<>>, 1, "")
  /\ UNCHANGED <<heap, tree, intervals, made, freed>>

\* lines 244-288: the empty check, the sort, the choice of mid, the
\* partition and the check of here; an exception unwinds every call
Partition ==
  /\ calls # <<>>
  /\ Top.pc = "enter"
  /\ IF Len(Top.intervals) <= 0
     THEN /\ calls' = <<>>
          /\ last' = [last EXCEPT !.op = "construct", !.what = EmptyMsg]
     ELSE \E cIntervals \in sort(Top.intervals, getStart) :
            LET mid == Centre(Pivot(cIntervals))
                lt == SelectSeq(cIntervals, LAMBDA i : GoesLeft(i, mid))
                rt == SelectSeq(cIntervals, LAMBDA i : GoesRight(i, mid))
                here == SelectSeq(cIntervals, LAMBDA i : StaysHere(i, mid))
            IN IF Len(here) <= 0
               THEN /\ calls' = <<>>
                    /\ last' = [last EXCEPT !.op = "construct", !.what = MidMsg]
               ELSE /\ calls' = SetTop([Top EXCEPT !.lt = lt, !.rt = rt,
                                                    !.here = here, !.pc = "left"])
                    /\ UNCHANGED last
  /\ UNCHANGED <<heap, tree, intervals, made, freed>>

\* line 290: if (lt.size() > 0) this->left = new IntervalTree(lt, ...)
NewLeft ==
  /\ calls # <<>>
  /\ Top.pc = "left"
  /\ IF Len(Top.lt) > 0
     THEN /\ Len(calls) < MaxDepth
          /\ calls' = Append(SetTop([Top EXCEPT !.pc = "right"]), Frame(Top.lt))
          /\ last' = [last EXCEPT !.n = Deepest(Len(calls) + 1)]
     ELSE /\ calls' = SetTop([Top EXCEPT !.pc = "right"])
          /\ UNCHANGED last
  /\ UNCHANGED <<heap, tree, intervals, made, freed>>

\* line 291: if (rt.size() > 0) this->right = new IntervalTree(rt, ...)
NewRight ==
  /\ calls # <<>>
  /\ Top.pc = "right"
  /\ IF Len(Top.rt) > 0
     THEN /\ Len(calls) < MaxDepth
          /\ calls' = Append(SetTop([Top EXCEPT !.pc = "data"]), Frame(Top.rt))
          /\ last' = [last EXCEPT !.n = Deepest(Len(calls) + 1)]
     ELSE /\ calls' = SetTop([Top EXCEPT !.pc = "data"])
          /\ UNCHANGED last
  /\ UNCHANGED <<heap, tree, intervals, made, freed>>

\* line 292: the node is constructed and the call returns
NewData ==
  /\ calls # <<>>
  /\ Top.pc = "data"
  /\ calls' = SubSeq(calls, 1, Len(calls) - 1)
  /\ last' = IF Len(calls) = 1 THEN [last EXCEPT !.op = "construct"] ELSE last
  /\ UNCHANGED <<heap, tree, intervals, made, freed>>

Run == Partition \/ NewLeft \/ NewRight \/ NewData

BuildNext ==
  \/ \E v \in Vectors : CallCtor(v)
  \/ Partition
  \/ NewLeft
  \/ NewRight
  \/ NewData

\* a call that has been entered runs on: the constructor is sequential code
\* with no wait in it
BuildSpec == Init /\ [][BuildNext]_vars /\ WF_vars(Run)

(* ------------------------------ claims -------------------------------- *)
Root(t) == heap[tree[t]]
NodeOf(h, this) == h[h[this].data]
Asked(op) == last.op = op /\ tree[last.t] # NULL
Given == intervals[last.t]

\* C1: intersectingPoint(P) on the tree built from S returns exactly the
\* multiset of the intervals of S with start <= P <= end.
C1_PointQueryExact ==
  Asked("intersectingPoint") =>
    BagOf(last.out) =
      BagOf(SelectSeq(Given, LAMBDA i : i[1] <= last.args[1] /\ last.args[1] <= i[2]))

\* C2: intersectingInterval(qs, qe), qs <= qe, on the tree built from S
\* returns exactly the multiset a flat scan of S with the same four-way test
\* returns: pruning a subtree never drops an interval that passes the test.
C2_IntervalQueryIsFlatScan ==
  Asked("intersectingInterval") =>
    BagOf(last.out) =
      BagOf(SelectSeq(Given, LAMBDA i : Overlaps(i, last.args[1], last.args[2])))

\* a query that pruned the root's left subtree, or its right one, and still
\* found something
C2_Witness ==
  /\ Asked("intersectingInterval")
  /\ last.out # <<>>
  /\ \/ Root(last.t).left # NULL /\ last.args[1] > NodeOf(heap, tree[last.t]).mid
     \/ Root(last.t).right # NULL /\ last.args[2] < NodeOf(heap, tree[last.t]).mid

\* C3: intersectingInterval(qs, qe), qs <= qe, returns every interval of S
\* with start <= qe and qs <= end, those that only touch the query at one
\* boundary value and a zero-length interval asked with its own bounds included.
C3_IntervalQueryInclusive ==
  Asked("intersectingInterval") =>
    BagOf(last.out) =
      BagOf(SelectSeq(Given, LAMBDA i : i[1] <= last.args[2] /\ last.args[1] <= i[2]))

\* C4: constructing a tree from an empty vector fails with the empty-input
\* IntervalTreeError, yields no tree and leaves nothing allocated.
C4_EmptyInputThrows ==
  [][(last'.op = "construct" /\ last'.args = << <<>> >>) =>
       /\ last'.what = EmptyMsg
       /\ tree'[last'.t] = NULL
       /\ heap' = heap]_vars

C4_Witness == last.op = "construct" /\ last.args = << <<>> >> /\ last.what # ""

\* C5: size() on the tree built from S is the number of elements of S,
\* duplicates counted.
C5_SizeIsCount == Asked("size") => last.n = Len(Given)

\* the size of a tree with a subtree, built from a vector with a duplicate
C5_Witness ==
  /\ Asked("size")
  /\ Cardinality(Range(Given)) < Len(Given)
  /\ Root(last.t).left # NULL \/ Root(last.t).right # NULL

\* C6: squash() on the tree built from S returns a permutation of S, in
\* pre-order: the root node's intervals as the node lists them, then the
\* intervals of the left subtree (all ending before mid), then those of the
\* right subtree (all starting after mid).
C6_SquashIsPreorderPermutation ==
  Asked("squash") =>
    LET mid == NodeOf(heap, tree[last.t]).mid
        own == Len(NodeOf(heap, tree[last.t]).starts)
        lft == Cardinality({k \in 1..Len(Given) : Given[k][2] < mid})
    IN /\ BagOf(last.out) = BagOf(Given)
       /\ SubSeq(last.out, 1, own) = NodeOf(heap, tree[last.t]).starts
       /\ \A k \in (own + 1)..(own + lft) : last.out[k][2] < mid
       /\ \A k \in (own + lft + 1)..Len(last.out) : last.out[k][1] > mid

C6_Witness ==
  /\ Asked("squash")
  /\ Root(last.t).left # NULL
  /\ Root(last.t).right # NULL

\* every object a query on the tree at this would read is a live object of
\* the kind the query takes it for
RECURSIVE WellFormed(_, _)
WellFormed(h, this) ==
  /\ this \in Addr
  /\ h[this].kind = "tree"
  /\ h[this].data \in Store
  /\ h[h[this].data].kind = "node"
  /\ h[this].left # NULL => WellFormed(h, h[this].left)
  /\ h[this].right # NULL => WellFormed(h, h[this].right)

Queries == {<<s, e>> \in Coord \X Coord : s <= e}
\* what every inspector returns on the tree at this, for every argument
Answers(h, this) ==
  [point |-> [p \in Coord |-> intersectingPoint(h, this, p)],
   interval |-> [q \in Queries |-> intersectingInterval(h, this, q[1], q[2])],
   squash |-> squash(h, this),
   size |-> size(h, this)]

\* C7: a tree made by copy-construction or copy-assignment answers every
\* query as its original did, and no later call on another tree (its
\* destruction included) changes what a live tree answers.
C7_CopyIsIndependent ==
  [][\A t \in Trees : tree'[t] # NULL =>
       /\ WellFormed(heap', tree'[t])
       /\ (last'.op \in {"copy", "assign"} /\ last'.t = t) =>
            Answers(heap', tree'[t]) = Answers(heap, tree[last'.args[1]])
       /\ (tree[t] # NULL /\ ~(last'.op = "assign" /\ last'.t = t)) =>
            Answers(heap', tree'[t]) = Answers(heap, tree[t])]_vars

\* the original has just been destroyed and a copy with subtrees lives on
C7_Witness ==
  /\ last.op = "destroy"
  /\ \E t \in Trees : /\ tree[t] # NULL
                      /\ made[t] \in {"copied", "assigned"}
                      /\ Root(t).left # NULL
                      /\ Root(t).right # NULL

\* C8: a tree can be constructed with the open-ended policy, and on it
\* intersectingPoint(P) returns exactly the intervals of S with
\* start <= P < end.  (The constructor takes no policy: the tree of the claim
\* can only be a tree the constructor builds.)
C8_PointQueryOpenEnded ==
  Asked("intersectingPoint") =>
    BagOf(last.out) =
      BagOf(SelectSeq(Given, LAMBDA i : i[1] <= last.args[1] /\ last.args[1] < i[2]))

\* the tree at this was built from the intervals X: split three ways at mid
RECURSIVE SplitThreeWays(_, _, _)
SplitThreeWays(h, this, X) ==
  LET mid == NodeOf(h, this).mid
      L == SelectSeq(X, LAMBDA i : i[2] < mid)
      R == SelectSeq(X, LAMBDA i : i[1] > mid /\ i[2] >= mid)
      H == SelectSeq(X, LAMBDA i : ~(i[2] < mid) /\ ~(i[1] > mid /\ i[2] >= mid))
  IN /\ BagOf(NodeOf(h, this).starts) = BagOf(H)
     /\ \A i \in Range(NodeOf(h, this).starts) : i[1] <= mid /\ mid <= i[2]
     /\ (h[this].left = NULL) <=> (L = <<>>)
     /\ (h[this].right = NULL) <=> (R = <<>>)
     /\ h[this].left # NULL =>
          /\ BagOf(squash(h, h[this].left)) = BagOf(L)
          /\ SplitThreeWays(h, h[this].left, L)
     /\ h[this].right # NULL =>
          /\ BagOf(squash(h, h[this].right)) = BagOf(R)
          /\ SplitThreeWays(h, h[this].right, R)

\* C9: at every node built from an interval set X with centre mid, the left
\* subtree holds exactly the intervals of X with end < mid, the right subtree
\* exactly those with start > mid, and the node the rest, each with
\* start <= mid <= end; the same holds in every subtree.
C9_ThreeWayPartition ==
  \A t \in Trees : tree[t] # NULL => SplitThreeWays(heap, tree[t], intervals[t])

\* a tree split three ways: both subtrees are there, and the node holds an
\* interval that only touches mid
C9_Witness ==
  /\ tree["t1"] # NULL
  /\ Root("t1").left # NULL
  /\ Root("t1").right # NULL
  /\ \E i \in Range(NodeOf(heap, tree["t1"]).starts) :
       i[1] # i[2] /\ (i[1] = NodeOf(heap, tree["t1"]).mid \/ i[2] = NodeOf(heap, tree["t1"]).mid)

\* the centre of the tree at this is the centre of the element in the middle
\* of a start-sorted arrangement of its intervals, lies within that element,
\* and the element is in the node
RECURSIVE PivotStaysHere(_, _)
PivotStaysHere(h, this) ==
  /\ \E c \in sort(squash(h, this), getStart) :
       LET pivot == c[(Len(c) \div 2) + 1]
           mid == pivot[1] + ((pivot[2] - pivot[1]) \div 2)
       IN /\ NodeOf(h, this).mid = mid
          /\ pivot[1] <= mid /\ mid <= pivot[2]
          /\ pivot \in Range(NodeOf(h, this).starts)
  /\ h[this].left # NULL => PivotStaysHere(h, h[this].left)
  /\ h[this].right # NULL => PivotStaysHere(h, h[this].right)

\* C10: for a non-empty vector of intervals with start <= end, the centre
\* of every node lies within its pivot, the pivot stays in the node, and the
\* "failed to intersect anything" error is never raised at any level.
C10_CentreWithinPivot ==
  /\ (last.op = "construct" /\ last.args # << <<>> >>) =>
       (last.what = "" /\ tree[last.t] # NULL)
  /\ \A t \in Trees : tree[t] # NULL => PivotStaysHere(heap, tree[t])

\* a tree just built with a subtree, whose root centre was rounded down
C10_Witness ==
  /\ Asked("construct")
  /\ Root(last.t).left # NULL
  /\ \E i \in Range(NodeOf(heap, tree[last.t]).starts) :
       /\ (i[2] - i[1]) % 2 = 1
       /\ NodeOf(heap, tree[last.t]).mid = i[1] + ((i[2] - i[1]) \div 2)

\* the subtrees intersectingPoint(point) is called on, the tree at this first
RECURSIVE Visited(_, _, _)
Visited(h, this, point) ==
  {this} \cup
  (IF point > NodeOf(h, this).mid /\ h[this].right # NULL
   THEN Visited(h, h[this].right, point)
   ELSE IF point < NodeOf(h, this).mid /\ h[this].left # NULL
   THEN Visited(h, h[this].left, point)
   ELSE {})

\* C11: at every node a point query P reaches with P > mid, the node gives
\* exactly its intervals with end >= P: no interval behind the position
\* where the scan of the ends vector stops has end >= P.
C11_EndScanExact ==
  Asked("intersectingPoint") =>
    \A n \in Visited(heap, tree[last.t], last.args[1]) :
      last.args[1] > NodeOf(heap, n).mid =>
        LET given == endAfterP(NodeOf(heap, n), last.args[1])
            ends == NodeOf(heap, n).ends
        IN /\ BagOf(given) = BagOf(SelectSeq(ends, LAMBDA i : i[2] >= last.args[1]))
           /\ \A k \in (Len(given) + 1)..Len(ends) : ~(ends[k][2] >= last.args[1])

Contains(i, point) == i[1] <= point /\ point <= i[2]
\* what the call of intersectingPoint on the subtree n of the last query
\* returned
Returned(n) ==
  IF n = tree[last.t] THEN last.out
  ELSE intersectingPoint(heap, n, last.args[1])

\* C12: at every node a point query P reaches with P < mid, the node gives
\* exactly its intervals with start <= P, in the order of the starts vector;
\* the rest of the result is what the left subtree returns, nothing comes
\* from the right subtree, and no interval of the right subtree contains P.
C12_StartScanExact ==
  Asked("intersectingPoint") =>
    \A n \in Visited(heap, tree[last.t], last.args[1]) :
      last.args[1] < NodeOf(heap, n).mid =>
        LET given == SelectSeq(NodeOf(heap, n).starts, LAMBDA i : i[1] <= last.args[1])
            below == IF heap[n].left # NULL
                     THEN intersectingPoint(heap, heap[n].left, last.args[1]) ELSE <<>>
            above == IF heap[n].right # NULL THEN squash(heap, heap[n].right) ELSE <<>>
        IN /\ Returned(n) = given \o below
           /\ \A i \in Range(above) : ~Contains(i, last.args[1]) /\ i \notin Range(Returned(n))

\* a query below the root's mid, on a tree with a right subtree, whose scan
\* of the starts vector took something and stopped before the end
C12_Witness ==
  /\ Asked("intersectingPoint")
  /\ last.args[1] < NodeOf(heap, tree[last.t]).mid
  /\ Root(last.t).right # NULL
  /\ last.out # <<>>
  /\ \E i \in Range(NodeOf(heap, tree[last.t]).starts) : i[1] > last.args[1]

\* C13: at a node a point query P reaches with P = mid, the call returns the
\* node's ends vector and nothing else; every interval of the node contains
\* P, the two vectors of the node hold the same intervals, and no interval
\* of the node's left or right subtree contains P.
C13_MidQueryIsNode ==
  Asked("intersectingPoint") =>
    \A n \in Visited(heap, tree[last.t], last.args[1]) :
      last.args[1] = NodeOf(heap, n).mid =>
        LET below == IF heap[n].left # NULL THEN squash(heap, heap[n].left) ELSE <<>>
            above == IF heap[n].right # NULL THEN squash(heap, heap[n].right) ELSE <<>>
        IN /\ Returned(n) = NodeOf(heap, n).ends
           /\ BagOf(Returned(n)) = BagOf(NodeOf(heap, n).starts)
           /\ \A i \in Range(Returned(n)) : Contains(i, last.args[1])
           /\ \A i \in Range(below) \cup Range(above) : ~Contains(i, last.args[1])

\* a query at the root's mid, on a tree with both subtrees
C13_Witness ==
  /\ Asked("intersectingPoint")
  /\ last.args[1] = NodeOf(heap, tree[last.t]).mid
  /\ Root(last.t).left # NULL
  /\ Root(last.t).right # NULL
  /\ last.out # <<>>

\* the tree at this and every subtree below it
RECURSIVE Subtrees(_, _)
Subtrees(h, this) ==
  {this} \cup
  (IF h[this].left # NULL THEN Subtrees(h, h[this].left) ELSE {}) \cup
  (IF h[this].right # NULL THEN Subtrees(h, h[this].right) ELSE {})

\* C14: every node of a constructed tree holds its intervals twice: both
\* vectors are non-empty and are the same multiset, starts in non-decreasing
\* order of start and ends in non-decreasing order of end.
C14_NodeListsSortedTwice ==
  \A t \in Trees : tree[t] # NULL =>
    \A n \in Subtrees(heap, tree[t]) :
      LET starts == NodeOf(heap, n).starts
          ends == NodeOf(heap, n).ends
      IN /\ heap[n].data # NULL
         /\ Len(starts) > 0
         /\ Len(ends) > 0
         /\ BagOf(starts) = BagOf(ends)
         /\ \A k \in 1..(Len(starts) - 1) : starts[k][1] <= starts[k + 1][1]
         /\ \A k \in 1..(Len(ends) - 1) : ends[k][2] <= ends[k + 1][2]

\* a tree with a subtree whose root node lists its intervals in two
\* different orders
C14_Witness ==
  /\ last.op = "construct"
  /\ tree[last.t] # NULL
  /\ Root(last.t).left # NULL \/ Root(last.t).right # NULL
  /\ NodeOf(heap, tree[last.t]).starts # NodeOf(heap, tree[last.t]).ends

\* the nodes and subtrees the tree at this points to, directly or through
\* its subtrees, each as often as it is pointed to
RECURSIVE Owns(_, _)
Owns(h, this) ==
  (IF h[this].data # NULL THEN <<h[this].data>> ELSE <<>>) \o
  (IF h[this].left # NULL THEN <<h[this].left>> \o Owns(h, h[this].left) ELSE <<>>) \o
  (IF h[this].right # NULL THEN <<h[this].right>> \o Owns(h, h[this].right) ELSE <<>>)

Once(s) == \A j, k \in 1..Len(s) : s[j] = s[k] => j = k

\* every object of the free store belongs to exactly one live tree, which
\* points to it once
Exclusive(h, tr) ==
  /\ \A t \in Trees : tr[t] # NULL =>
       /\ h[tr[t]].kind = "tree"
       /\ Once(Owns(h, tr[t]))
       /\ \A a \in Range(Owns(h, tr[t])) : a \in Store /\ h[a].kind # "free"
  /\ \A t, u \in Trees : (t # u /\ tr[t] # NULL /\ tr[u] # NULL) =>
       Range(Owns(h, tr[t])) \cap Range(Owns(h, tr[u])) = {}
  /\ \A a \in Store : h[a].kind # "free" =>
       \E t \in Trees : tr[t] # NULL /\ a \in Range(Owns(h, tr[t]))

\* C15: after every construction, copy-construction, copy-assignment (of a
\* tree to itself included) and destruction, each node and subtree belongs
\* to exactly one live tree; destroying a tree deletes each of its nodes and
\* subtrees exactly once, assigning to a tree deletes each of the nodes and
\* subtrees it had exactly once, and nothing a live tree owns is deleted.
C15_ExclusiveOwnership ==
  [][/\ Exclusive(heap', tree')
     /\ Once(freed')
     /\ last'.op \in {"destroy", "assign"} =>
          Range(freed') = Range(Owns(heap, tree[last'.t]))
     /\ last'.op \notin {"destroy", "assign"} => freed' = <<>>
     /\ \A a \in Range(freed') : heap'[a].kind = "free"
     /\ \A t \in Trees : tree'[t] # NULL =>
          Range(freed') \cap (Range(Owns(heap', tree'[t])) \cup {tree'[t]}) = {}]_vars

\* a tree with both subtrees has been assigned to itself while another tree
\* is alive
C15_Witness ==
  /\ last.op = "assign"
  /\ last.args = <<last.t>>
  /\ Root(last.t).left # NULL
  /\ Root(last.t).right # NULL
  /\ Len(freed) = Len(Owns(heap, tree[last.t]))
  /\ \E u \in Trees : u # last.t /\ tree[u] # NULL

\* every call in progress was handed a non-empty part of what its caller
\* received, with fewer intervals, by a caller whose own part is non-empty
Shrinking ==
  \A k \in 2..Len(calls) :
    /\ Len(calls[k].intervals) > 0
    /\ Len(calls[k].intervals) < Len(calls[k - 1].intervals)
    /\ Len(calls[k - 1].here) > 0
    /\ calls[k].intervals \in {calls[k - 1].lt, calls[k - 1].rt}

\* C16: the construction from a non-empty vector S of intervals with
\* start <= end comes to an end and yields a tree: every nested constructor
\* call receives a non-empty partition with strictly fewer intervals than
\* its caller, whose own partition is non-empty, and the calls never nest
\* deeper than |S|.
C16_ConstructionTerminates ==
  /\ [](last.op \in {"constructing", "construct"} =>
          /\ Shrinking
          /\ Len(calls) <= Len(last.args[1]) \/ last.args[1] = <<>>
          /\ last.args[1] # <<>> => (last.n <= Len(last.args[1]) /\ last.what = ""))
  /\ (last.op = "constructing") ~> (last.op = "construct" /\ calls = <<>>)

\* a construction from a vector of MaxLen intervals has returned after
\* nesting its calls
C16_Witness ==
  /\ last.op = "construct"
  /\ calls = <<>>
  /\ last.what = ""
  /\ Len(last.args[1]) = MaxLen
  /\ last.n > 1

=============================================================================
